---- MODULE Spec2Model ----
(***************************************************************************)
(* Model of src/sma_crossover_analysis.py (class SMACrossoverAnalyzer):    *)
(* the moving-average calculator, the crossover detector, the outcome      *)
(* analyzer and the per-timeframe loop that feeds detector output to the   *)
(* analyzer.                                                               *)
(*                                                                         *)
(* Conventions.  Positions are 0-based as in the Python code: a column is  *)
(* a function over 0..n-1.  Prices are positive integers.  A real-valued   *)
(* quantity that the code obtains by a division (the rolling mean, the     *)
(* percentages) is kept as an exact fraction [num, den] with den > 0;      *)
(* floating-point rounding is not modelled.  A missing value of an SMA     *)
(* cell is a cell with nan = TRUE; Python's None for an optional integer   *)
(* is the empty sequence and a present value i is <<i>>.                   *)
(***************************************************************************)
EXTENDS Integers, Sequences, FiniteSets, TLC

\* ---------------------------------------------------------------- bounds
MaxLen == 5
MaxWindow == 3
MaxLook == 5
MaxSynthLen == 6
MaxSourceLen == 2
MaxYears == 1
MaxTicks == 1
MaxCalls == 2

\* lookforward_periods=100, the default of analyze_crossover
DefaultLook == 100

Prices == {97, 98, 99, 100}

\* the closes of the forward window of the scenario of spec section 8
ScenarioCloses == [i \in 0..4 |-> CASE i = 0 -> 110 [] i = 1 -> 108 [] i = 2 -> 95
                                    [] i = 3 -> 105 [] OTHER -> 112]

\* ---------------------------------------------------------------- values
None == <<>>
Some(i) == <<i>>

NaN == [nan |-> TRUE, num |-> 0, den |-> 1]
Frac(a, b) == [nan |-> FALSE, num |-> a, den |-> b]

\* float comparisons price < cell, price >= cell, price <= cell; any
\* comparison with NaN is False
PriceLt(p, c) == (~c.nan) /\ (p * c.den < c.num)
PriceGe(p, c) == (~c.nan) /\ (p * c.den >= c.num)
PriceLe(p, c) == (~c.nan) /\ (p * c.den <= c.num)

NoFrame == [kind |-> "None"]

\* timestamp of the bar at position i (strictly increasing, unique)
Stamp(i) == 1000 + i

\* a Series as returned by the bar source: only Close and the index matter
Series(n, closes) ==
  [kind |-> "frame", n |-> n, cols |-> {"Close"},
   index |-> [i \in 0..(n-1) |-> Stamp(i)],
   Close |-> closes,
   SMA |-> [i \in 0..(n-1) |-> NaN]]

\* ---------------------------------------------------------------- _generate_synthetic_data
\* Time is counted in hours.  The random generator is a 16-state congruential
\* generator standing for numpy's global generator: np.random.seed installs a
\* state that depends on the seed only, every draw advances the state.
SeedValue == 42
RngStates == 0..15
Seeded(seed) == seed % Cardinality(RngStates)
RngNext(x) == (13 * x + 9) % Cardinality(RngStates)

\* the state after cnt draws from state x
RECURSIVE RngAfter(_, _)
RngAfter(x, cnt) == IF cnt = 0 THEN x ELSE RngAfter(RngNext(x), cnt - 1)

\* initial_price, on the price scale of the model
InitialPrice == 98

\* one element of np.random.normal(trend, volatility, n), as a price step
StepOf(x) == (x % 5) - 2

\* the periods requested for an interval, cut at MaxSynthLen
RawPeriods(interval, yrs) ==
  CASE interval = "1h" -> 730 * 24
    [] interval = "4h" -> 730 * 6
    [] interval = "1d" -> 365 * yrs
    [] interval = "1wk" -> 52 * yrs
    [] interval = "1mo" -> 12 * yrs
    [] OTHER -> 365 * yrs

SynthPeriods(interval, yrs) ==
  IF RawPeriods(interval, yrs) < MaxSynthLen THEN RawPeriods(interval, yrs)
  ELSE MaxSynthLen

\* hours between two bars of the frequency of the interval ('MS' as 30 days)
FreqHours(interval) ==
  CASE interval = "1h" -> 1
    [] interval = "4h" -> 4
    [] interval = "1d" -> 24
    [] interval = "1wk" -> 168
    [] interval = "1mo" -> 720
    [] OTHER -> 24

\* pd.date_range(end=datetime.now(), periods=n, freq=freq): the last stamp
\* is the clock itself for 'h', '4h' and 'D'; for the anchored frequencies
\* 'W' and 'MS' it is rolled back to the anchor, keeping the time of day
LastStamp(interval, clock) ==
  IF interval \in {"1wk", "1mo"}
  THEN (clock \div FreqHours(interval)) * FreqHours(interval) + (clock % 24)
  ELSE clock

DateRange(interval, clock, n) ==
  [i \in 0..(n - 1) |-> LastStamp(interval, clock) - (n - 1 - i) * FreqHours(interval)]

\* 200 * sin(linspace(0, 4 pi, n)), two full cycles, as a unit square wave
Cycle(i, n) == IF ((4 * i) \div n) \in {0, 2} THEN 1 ELSE -1

\* initial_price * exp(cumsum(returns)): the walk after the draws 1..i+1
RECURSIVE Walk(_, _)
Walk(x, i) ==
  IF i < 0 THEN InitialPrice
  ELSE Walk(x, i - 1) + StepOf(RngAfter(x, i + 1))

\* the frame returned (Open, High, Low and Volume carry no behaviour here)
SyntheticFrame(interval, yrs, clock) ==
  LET n == SynthPeriods(interval, yrs)
  IN [kind |-> "frame", n |-> n, cols |-> {"Close"},
      index |-> DateRange(interval, clock, n),
      Close |-> [i \in 0..(n - 1) |-> Walk(Seeded(SeedValue), i) + Cycle(i, n)],
      SMA |-> [i \in 0..(n - 1) |-> NaN]]

\* the global generator state after the call: seeded, then five arrays of n
\* draws each (returns, high, low, open, volume)
SyntheticRng(g, interval, yrs) ==
  RngAfter(Seeded(SeedValue), 5 * SynthPeriods(interval, yrs))

\* ---------------------------------------------------------------- fetch_data
\* what yf.download does: raises, returns None, or returns a frame
SourcePrices == {98}
SourceFrames == UNION {{Series(n, c) : c \in [0..(n - 1) -> SourcePrices]} : n \in 0..MaxSourceLen}
SourceOutcomes ==
  {[kind |-> "raise", data |-> NoFrame], [kind |-> "none", data |-> NoFrame]}
  \cup {[kind |-> "data", data |-> f] : f \in SourceFrames}

\* the source gave nothing to work with: exception, None or an empty frame
SourceFailed(src) ==
  src.kind \in {"raise", "none"} \/ src.data.n = 0

\* the value fetch_data returns, the messages it prints and the state it
\* leaves in the global generator
fetch_data(src, interval, yrs, clock, g) ==
  IF src.kind = "raise"
  THEN [data |-> SyntheticFrame(interval, yrs, clock), synthetic |-> TRUE,
        msgs |-> {"Error fetching data", "Using synthetic demo data"},
        rng |-> SyntheticRng(g, interval, yrs)]
  ELSE IF SourceFailed(src)
  THEN [data |-> SyntheticFrame(interval, yrs, clock), synthetic |-> TRUE,
        msgs |-> {"Using synthetic demo data"},
        rng |-> SyntheticRng(g, interval, yrs)]
  ELSE [data |-> src.data, synthetic |-> FALSE, msgs |-> {}, rng |-> g]

\* ---------------------------------------------------------------- resample('4H')
ResampleHours == 4

\* the 4-hour buckets that hold at least one bar (the others are dropped)
Buckets(f) == {f.index[i] \div ResampleHours : i \in 0..(f.n - 1)}

\* the bucket of rank r in time order
BucketAt(f, r) ==
  CHOOSE b \in Buckets(f) : Cardinality({c \in Buckets(f) : c < b}) = r

\* the position of the last bar of bucket b
LastIn(f, b) ==
  CHOOSE i \in 0..(f.n - 1) :
    /\ f.index[i] \div ResampleHours = b
    /\ \A j \in 0..(f.n - 1) : f.index[j] \div ResampleHours = b => j <= i

\* resample('4H').agg({... 'Close': 'last' ...}).dropna()
Resample(f) ==
  LET n4 == Cardinality(Buckets(f))
  IN [kind |-> "frame", n |-> n4, cols |-> {"Close"},
      index |-> [r \in 0..(n4 - 1) |-> BucketAt(f, r) * ResampleHours],
      Close |-> [r \in 0..(n4 - 1) |-> f.Close[LastIn(f, BucketAt(f, r))]],
      SMA |-> [r \in 0..(n4 - 1) |-> NaN]]

\* ---------------------------------------------------------------- calculate_sma
\* Series.rolling(window=w).mean(): the sliding window adds the newest
\* observation and removes the one that left the window; the result is
\* missing until w observations are in the window (min_periods = window)
\* variant: the observation that leaves the window is never removed
RECURSIVE RollSumNoRemove(_, _, _)
RollSumNoRemove(closes, w, i) ==
  IF i < 0 THEN 0 ELSE RollSumNoRemove(closes, w, i - 1) + closes[i]

RECURSIVE RollSum(_, _, _)
RollSum(closes, w, i) ==
  IF i < 0 THEN 0
  ELSE RollSum(closes, w, i - 1) + closes[i]
       - (IF i - w >= 0 THEN closes[i - w] ELSE 0)

RollCount(w, i) == IF i + 1 < w THEN i + 1 ELSE w

Rolling(closes, n, w) ==
  [i \in 0..(n-1) |->
     IF RollCount(w, i) < w THEN NaN
     ELSE Frac(RollSum(closes, w, i), RollCount(w, i))]

calculate_sma(data, w) ==
  IF data.kind = "None" \/ data.n < w THEN NoFrame
  ELSE [data EXCEPT !.cols = @ \cup {"SMA"},
                    !.SMA = Rolling(data.Close, data.n, w)]

\* ---------------------------------------------------------------- identify_crossovers
\* df.dropna(subset=['SMA']): the original positions of the rows kept, in order
RECURSIVE DropNa(_, _)
DropNa(df, i) ==
  IF i >= df.n THEN <<>>
  ELSE (IF df.SMA[i].nan THEN <<>> ELSE <<i>>) \o DropNa(df, i + 1)

\* the loop for i in range(1, len(df)) over the frame after dropna;
\* kept[i+1] is the original position of the row at position i
\* variant: the previous bar only has to be at or below its average
RECURSIVE CrossLoopNonStrict(_, _, _, _)
CrossLoopNonStrict(df, kept, i, acc) ==
  IF i >= Len(kept) THEN acc
  ELSE LET prev_below == PriceLe(df.Close[kept[i]], df.SMA[kept[i]])
           curr_above == PriceGe(df.Close[kept[i + 1]], df.SMA[kept[i + 1]])
       IN CrossLoopNonStrict(df, kept, i + 1,
                    IF prev_below /\ curr_above THEN Append(acc, i) ELSE acc)

\* variant: the position reported is that of the frame passed in
RECURSIVE CrossLoopPassedFrame(_, _, _, _)
CrossLoopPassedFrame(df, kept, i, acc) ==
  IF i >= Len(kept) THEN acc
  ELSE LET prev_below == PriceLt(df.Close[kept[i]], df.SMA[kept[i]])
           curr_above == PriceGe(df.Close[kept[i + 1]], df.SMA[kept[i + 1]])
       IN CrossLoopPassedFrame(df, kept, i + 1,
                    IF prev_below /\ curr_above THEN Append(acc, kept[i + 1]) ELSE acc)

RECURSIVE CrossLoop(_, _, _, _)
CrossLoop(df, kept, i, acc) ==
  IF i >= Len(kept) THEN acc
  ELSE LET prev_below == PriceLt(df.Close[kept[i]], df.SMA[kept[i]])
           curr_above == PriceGe(df.Close[kept[i + 1]], df.SMA[kept[i + 1]])
       IN CrossLoop(df, kept, i + 1,
                    IF prev_below /\ curr_above THEN Append(acc, i) ELSE acc)

identify_crossovers(df) ==
  IF df.kind = "None" \/ "SMA" \notin df.cols THEN <<>>
  ELSE LET kept == DropNa(df, 0)
       IN IF Len(kept) < 2 THEN <<>>
          ELSE CrossLoop(df, kept, 1, <<>>)

\* ---------------------------------------------------------------- analyze_crossover
NoResult == [kind |-> "None"]
Raised == [kind |-> "raise"]

\* variant: the running maximum is overwritten by every bar
RunMaxLast(current_price, max_price) == current_price

\* if current_price > max_price: max_price = current_price
RunMax(current_price, max_price) ==
  IF current_price > max_price THEN current_price ELSE max_price

\* if current_price < min_price: min_price = current_price
RunMin(current_price, min_price) ==
  IF current_price < min_price THEN current_price ELSE min_price

\* variant: the first touch is not latched
TouchesUnlatched(touched_sma, current_price, current_sma) ==
  PriceLe(current_price, current_sma)

\* if not touched_sma and current_price <= current_sma
Touches(touched_sma, current_price, current_sma) ==
  (~touched_sma) /\ PriceLe(current_price, current_sma)

\* variant: a recorded recovery is overwritten by a later one
RecoversOverwrite(current_price, entry_price, min_price, recovery_date) ==
  current_price >= entry_price /\ min_price < entry_price

\* the if / elif on recovery: the elif branch is taken when the if branch
\* (still below entry, nothing recorded yet) is not
Recovers(current_price, entry_price, min_price, recovery_date) ==
  /\ ~(current_price < entry_price /\ recovery_date = None)
  /\ current_price >= entry_price
  /\ min_price < entry_price
  /\ recovery_date = None

\* one iteration of for i in range(1, len(future_data)); e is the position of
\* the first row of future_data in df, st the loop-carried locals
ScanStep(df, e, entry_price, i, st) ==
  LET current_price == df.Close[e + i]
      current_sma == df.SMA[e + i]
      max_price == RunMax(current_price, st.max_price)
      min_price == RunMin(current_price, st.min_price)
      touch == Touches(st.touched_sma, current_price, current_sma)
      recover == Recovers(current_price, entry_price, min_price, st.days_to_recovery)
  IN [max_price |-> max_price,
      min_price |-> min_price,
      touched_sma |-> st.touched_sma \/ touch,
      days_to_touch_sma |-> IF touch THEN Some(i) ELSE st.days_to_touch_sma,
      days_to_recovery |-> IF recover THEN Some(i) ELSE st.days_to_recovery]

RECURSIVE ScanLoop(_, _, _, _, _, _)
ScanLoop(df, e, entry_price, m, i, st) ==
  IF i >= m THEN st
  ELSE ScanLoop(df, e, entry_price, m, i + 1, ScanStep(df, e, entry_price, i, st))

Min2(a, b) == IF a < b THEN a ELSE b

\* variant: the forward window always runs to the end of the frame
EndIdxWholeFrame(crossover_idx, lookforward_periods, n) == n

\* end_idx = min(crossover_idx + lookforward_periods, len(df))
EndIdx(crossover_idx, lookforward_periods, n) ==
  Min2(crossover_idx + lookforward_periods, n)
Abs(x) == IF x < 0 THEN -x ELSE x

\* variant: no 2% tolerance
StayedAboveNoTolerance(min_price, entry_price) == min_price >= entry_price

\* entry_price * 0.98 <= min_price
StayedAbove(min_price, entry_price) == min_price * 100 >= entry_price * 98

\* variant: the buffer is applied only beyond a 2% drawdown
StopLossLateBuffer(max_drawdown) ==
  IF max_drawdown.num < -2 * max_drawdown.den
  THEN Frac(Abs(max_drawdown.num) + max_drawdown.den, max_drawdown.den)
  ELSE Frac(2, 1)

\* max_drawdown < -1 ? abs(max_drawdown) + 1 : 2
StopLoss(max_drawdown) ==
  IF max_drawdown.num < -max_drawdown.den
  THEN Frac(Abs(max_drawdown.num) + max_drawdown.den, max_drawdown.den)
  ELSE Frac(2, 1)

\* variant: only an index beyond the last bar is rejected
TooLateBeyondEnd(crossover_idx, n) == crossover_idx >= n

\* if crossover_idx >= len(df) - 1: return None
TooLate(crossover_idx, n) == crossover_idx >= n - 1

analyze_crossover(df, crossover_idx, lookforward_periods) ==
  IF TooLate(crossover_idx, df.n) THEN NoResult
  ELSE
    LET entry_price == df.Close[crossover_idx]
        end_idx == EndIdx(crossover_idx, lookforward_periods, df.n)
        m == IF end_idx > crossover_idx THEN end_idx - crossover_idx ELSE 0
        st == ScanLoop(df, crossover_idx, entry_price, m, 1,
                       [max_price |-> entry_price, min_price |-> entry_price,
                        touched_sma |-> FALSE, days_to_touch_sma |-> None,
                        days_to_recovery |-> None])
        max_gain_points == st.max_price - entry_price
        max_drawdown_points == st.min_price - entry_price
        max_drawdown == Frac(max_drawdown_points * 100, entry_price)
        final_price == df.Close[end_idx - 1]
        bounced == StayedAbove(st.min_price, entry_price)
    IN IF m = 0 THEN Raised   \* future_data['Close'].iloc[-1] on an empty slice
       ELSE
        [kind |-> "rec",
         entry_price |-> entry_price,
         entry_sma |-> df.SMA[crossover_idx],
         entry_date |-> df.index[crossover_idx],
         touched_sma_again |-> st.touched_sma,
         days_to_touch_sma |-> st.days_to_touch_sma,
         bounced |-> bounced,
         bounce_points |-> IF bounced THEN max_gain_points ELSE 0,
         max_gain |-> Frac(max_gain_points * 100, entry_price),
         max_gain_points |-> max_gain_points,
         max_drawdown |-> max_drawdown,
         max_drawdown_points |-> max_drawdown_points,
         days_to_recovery |-> st.days_to_recovery,
         final_price |-> final_price,
         points_captured |-> final_price - entry_price,
         profitable |-> final_price - entry_price > 0,
         suggested_stoploss_pct |-> StopLoss(max_drawdown),
         went_down_then_up |-> (~bounced) /\ st.days_to_recovery # None,
         went_up_continuously |-> bounced]

\* ---------------------------------------------------------------- summary statistics
RECURSIVE SeqSum(_)
SeqSum(s) == IF s = <<>> THEN 0 ELSE Head(s) + SeqSum(Tail(s))

\* sum of a list of fractions
RECURSIVE FracSeqSum(_)
FracSeqSum(s) ==
  IF s = <<>> THEN Frac(0, 1)
  ELSE LET t == FracSeqSum(Tail(s))
       IN Frac(Head(s).num * t.den + t.num * Head(s).den, Head(s).den * t.den)

\* np.mean of a non-empty list of integers / of fractions
MeanInt(s) == Frac(SeqSum(s), Len(s))
MeanFrac(s) == Frac(FracSeqSum(s).num, FracSeqSum(s).den * Len(s))

RECURSIVE SeqMax(_)
SeqMax(s) ==
  IF Len(s) = 1 THEN Head(s)
  ELSE IF Head(s) > SeqMax(Tail(s)) THEN Head(s) ELSE SeqMax(Tail(s))

RECURSIVE SeqMin(_)
SeqMin(s) ==
  IF Len(s) = 1 THEN Head(s)
  ELSE IF Head(s) < SeqMin(Tail(s)) THEN Head(s) ELSE SeqMin(Tail(s))

IsBounced(a) == a.bounced
IsProfitable(a) == a.profitable
IsLosing(a) == ~a.profitable
HasRecovery(a) == a.days_to_recovery # None
HasTouched(a) == a.touched_sma_again
IsDownThenUp(a) == a.went_down_then_up
IsUpContinuously(a) == a.went_up_continuously

\* sum(1 for a in analyses if cond(a))
CountIf(as, cond(_)) == Len(SelectSeq(as, cond))

\* [a[field] for a in analyses]
PointsCaptured(as) == [i \in 1..Len(as) |-> as[i].points_captured]
BouncePoints(as) == [i \in 1..Len(as) |-> as[i].bounce_points]
RecoveryDays(as) == [i \in 1..Len(as) |-> as[i].days_to_recovery[1]]

\* variant: the ratio is not scaled to a percentage
WinningRateUnscaled(as) == Frac(CountIf(as, IsProfitable), Len(as))

\* (sum(1 for a in analyses if a['profitable']) / len(analyses)) * 100
WinningRate(as) == Frac(CountIf(as, IsProfitable) * 100, Len(as))

\* np.mean([a['bounce_points'] ... if a['bounced']]) if any(...) else 0
AvgBouncePoints(as) ==
  IF CountIf(as, IsBounced) > 0
  THEN MeanInt(BouncePoints(SelectSeq(as, IsBounced)))
  ELSE Frac(0, 1)

\* variant: the mean is taken over all records, a missing value counting 0
AvgDaysToRecoveryOverAll(as) ==
  IF CountIf(as, HasRecovery) > 0
  THEN Some(Frac(SeqSum(RecoveryDays(SelectSeq(as, HasRecovery))), Len(as)))
  ELSE None

\* np.mean([a['days_to_recovery'] ... if not None]) if any(...) else None
AvgDaysToRecovery(as) ==
  IF CountIf(as, HasRecovery) > 0
  THEN Some(MeanInt(RecoveryDays(SelectSeq(as, HasRecovery))))
  ELSE None

\* the dictionary returned when no crossover was found
EmptySummary(timeframe_name, df) ==
  [timeframe |-> timeframe_name,
   total_crossovers |-> 0,
   data_points |-> df.n,
   period_start |-> df.index[0],
   period_end |-> df.index[df.n - 1]]

\* the dictionary compiled from a non-empty list of analyses
Summarize(timeframe_name, df, as) ==
  [timeframe |-> timeframe_name,
   total_crossovers |-> Len(as),
   touched_sma_count |-> CountIf(as, HasTouched),
   bounced_count |-> CountIf(as, IsBounced),
   avg_bounce_points |-> AvgBouncePoints(as),
   avg_points_captured |-> MeanInt(PointsCaptured(as)),
   max_points_captured |-> SeqMax(PointsCaptured(as)),
   min_points_captured |-> SeqMin(PointsCaptured(as)),
   winning_trades |-> CountIf(as, IsProfitable),
   losing_trades |-> CountIf(as, IsLosing),
   winning_rate |-> WinningRate(as),
   avg_max_gain |-> MeanFrac([i \in 1..Len(as) |-> as[i].max_gain]),
   avg_max_gain_points |-> MeanInt([i \in 1..Len(as) |-> as[i].max_gain_points]),
   avg_max_drawdown |-> MeanFrac([i \in 1..Len(as) |-> as[i].max_drawdown]),
   avg_max_drawdown_points |-> MeanInt([i \in 1..Len(as) |-> as[i].max_drawdown_points]),
   avg_suggested_stoploss |-> MeanFrac([i \in 1..Len(as) |-> as[i].suggested_stoploss_pct]),
   avg_days_to_recovery |-> AvgDaysToRecovery(as),
   went_down_then_up_count |-> CountIf(as, IsDownThenUp),
   went_up_continuously_count |-> CountIf(as, IsUpContinuously),
   data_points |-> df.n,
   period_start |-> df.index[0],
   period_end |-> df.index[df.n - 1]]

\* ---------------------------------------------------------------- state
VARIABLES
  sma_period,   \* self.sma_period
  data,         \* the Series of the resolution under analysis
  pc,           \* position inside analyze_timeframe
  df,           \* result of calculate_sma(data)
  crossovers,   \* result of identify_crossovers(df)
  k,            \* number of crossovers the analysis loop has consumed
  analyses,     \* the list analyses of analyze_timeframe
  origin,       \* for each element of analyses, the crossover it was built from
  outcome,      \* what analyze_timeframe returned
  summary,      \* the dictionary analyze_timeframe returned, if any
  name,         \* timeframe_name
  probe,        \* arguments and result of the last direct call of a method
  years,        \* self.years
  now,          \* the clock read by datetime.now(), in hours
  rng,          \* the state of numpy's global random generator
  rpc,          \* position inside run_full_analysis
  timeframes,   \* the list timeframes of run_full_analysis
  ti,           \* number of entries of timeframes the loop has consumed
  four_hour_data, \* the variable four_hour_data of run_full_analysis
  results,      \* the list results of run_full_analysis
  report,       \* what run_full_analysis returned
  seen,         \* for each resolution processed, what its processing produced
  fetched,      \* the last call of fetch_data: what the source did, what came back
  calls         \* the direct calls of _generate_synthetic_data made so far

\* the state of run_full_analysis and of its environment
orch == <<years, now, rng, rpc, timeframes, ti, four_hour_data, results, report, seen,
          fetched, calls>>

vars == <<sma_period, data, pc, df, crossovers, k, analyses, origin, outcome, summary,
          name, probe, orch>>

SeriesOfLen(n) == {Series(n, c) : c \in [0..(n-1) -> Prices]}

Inputs == (UNION {SeriesOfLen(n) : n \in 0..MaxLen}) \cup {Series(5, ScenarioCloses)}

NoProbe == [op |-> "none"]

NoFetch == [interval |-> "none"]

\* the first reading of the clock
ClockStart == 1008

\* no run of run_full_analysis and no call of the generator is under way
OrchIdle ==
  /\ years = 1
  /\ now = ClockStart
  /\ rng = 0
  /\ rpc = "idle"
  /\ timeframes = <<>>
  /\ ti = 0
  /\ four_hour_data = NoFrame
  /\ results = <<>>
  /\ report = None
  /\ seen = {}
  /\ fetched = NoFetch
  /\ calls = <<>>

Init ==
  /\ sma_period \in 1..MaxWindow
  /\ data \in Inputs
  /\ pc = "fetched"
  /\ df = NoFrame
  /\ crossovers = <<>>
  /\ k = 0
  /\ analyses = <<>>
  /\ origin = <<>>
  /\ outcome = "running"
  /\ summary = None
  /\ name = "Daily"
  /\ probe = NoProbe
  /\ OrchIdle

\* ---- analyze_timeframe, statement by statement
\* if data is None or len(data) == 0: return None
EmptyData ==
  /\ pc = "fetched" /\ data.n = 0
  /\ pc' = "done" /\ outcome' = "None"
  /\ UNCHANGED <<sma_period, data, df, crossovers, k, analyses, origin, summary, name, probe, orch>>

\* df = self.calculate_sma(data); if df is None: return None
CalculateSma ==
  /\ pc = "fetched" /\ data.n > 0
  /\ df' = calculate_sma(data, sma_period)
  /\ IF df'.kind = "None"
     THEN pc' = "done" /\ outcome' = "None"
     ELSE pc' = "sma" /\ UNCHANGED outcome
  /\ UNCHANGED <<sma_period, data, crossovers, k, analyses, origin, summary, name, probe, orch>>

\* crossovers = self.identify_crossovers(df); zero crossovers return the
\* short summary
IdentifyCrossovers ==
  /\ pc = "sma"
  /\ crossovers' = identify_crossovers(df)
  /\ IF Len(crossovers') = 0
     THEN pc' = "done" /\ outcome' = "empty_summary"
          /\ summary' = Some(EmptySummary(name, df))
     ELSE pc' = "analysing" /\ UNCHANGED <<outcome, summary>>
  /\ UNCHANGED <<sma_period, data, df, k, analyses, origin, name, probe, orch>>

\* for idx in crossovers: result = self.analyze_crossover(df, idx) ...
AnalyzeNext ==
  /\ pc = "analysing" /\ k < Len(crossovers)
  /\ LET idx == crossovers[k + 1]
         result == analyze_crossover(df, idx, DefaultLook)
     IN IF result.kind = "rec"
        THEN analyses' = Append(analyses, result) /\ origin' = Append(origin, idx)
        ELSE UNCHANGED <<analyses, origin>>
  /\ k' = k + 1
  /\ UNCHANGED <<sma_period, data, pc, df, crossovers, outcome, summary, name, probe, orch>>

\* if len(analyses) == 0: return None, else the summary is compiled
Compile ==
  /\ pc = "analysing" /\ k = Len(crossovers)
  /\ pc' = "done"
  /\ outcome' = IF Len(analyses) = 0 THEN "None" ELSE "summary"
  /\ summary' = IF Len(analyses) = 0 THEN None ELSE Some(Summarize(name, df, analyses))
  /\ UNCHANGED <<sma_period, data, df, crossovers, k, analyses, origin, name, probe, orch>>

\* ---- direct calls of the methods on the frames at hand, as the test script
\* makes them; the methods are pure, so one call after the run covers them
Frames == {NoFrame, data, df}

CallIdentify ==
  /\ pc = "done" /\ probe = NoProbe
  /\ \E f \in Frames :
       probe' = [op |-> "identify_crossovers", frame |-> f,
                 result |-> identify_crossovers(f)]
  /\ UNCHANGED <<sma_period, data, pc, df, crossovers, k, analyses, origin, outcome,
                 summary, name, orch>>

CallAnalyze ==
  /\ pc = "done" /\ probe = NoProbe
  /\ df.kind = "frame"
  /\ \E idx \in 0..df.n, look \in (0..MaxLook) \cup {DefaultLook} :
       probe' = [op |-> "analyze_crossover", idx |-> idx, look |-> look,
                 result |-> analyze_crossover(df, idx, look)]
  /\ UNCHANGED <<sma_period, data, pc, df, crossovers, k, analyses, origin, outcome,
                 summary, name, orch>>

Next ==
  \/ EmptyData
  \/ CalculateSma
  \/ IdentifyCrossovers
  \/ AnalyzeNext
  \/ Compile
  \/ CallIdentify
  \/ CallAnalyze

Spec == Init /\ [][Next]_vars

\* one run of analyze_timeframe on its own, without the direct calls
PipelineNext ==
  \/ EmptyData
  \/ CalculateSma
  \/ IdentifyCrossovers
  \/ AnalyzeNext
  \/ Compile

PipelineSpec == Init /\ [][PipelineNext]_vars

\* ---------------------------------------------------------------- run_full_analysis
Timeframe(interval, timeframe_name) == [interval |-> interval, name |-> timeframe_name]

BaseTimeframes ==
  <<Timeframe("1d", "Daily"), Timeframe("1wk", "Weekly"), Timeframe("1mo", "Monthly")>>

\* variant: the 4-hour entry is added at the end of the list
InsertFourHourLast(tfs) == Append(tfs, Timeframe("4h_resampled", "4-Hour"))

\* timeframes.insert(0, ('4h_resampled', '4-Hour'))
InsertFourHour(tfs) == <<Timeframe("4h_resampled", "4-Hour")>> \o tfs

\* variant: the list of rows is always wrapped into a report
ReportAlways(rows) == Some(rows)

\* if len(results) == 0: return None; return pd.DataFrame(results)
ReportOf(rows) == IF Len(rows) = 0 THEN None ELSE Some(rows)

\* the loop over crossovers of the 4-hour branch: the records built and the
\* crossovers they were built from
RECURSIVE AnalyzeAll(_, _, _, _)
AnalyzeAll(f, cr, i, acc) ==
  IF i > Len(cr) THEN acc
  ELSE LET result == analyze_crossover(f, cr[i], DefaultLook)
       IN AnalyzeAll(f, cr, i + 1,
                     IF result.kind = "rec"
                     THEN [analyses |-> Append(acc.analyses, result),
                           origin |-> Append(acc.origin, cr[i])]
                     ELSE acc)

\* the 4-hour branch of the loop body, on the resampled frame
FourHourBranch(fhd, w, timeframe_name) ==
  LET f == calculate_sma(fhd, w)
      cr == IF f.kind = "None" THEN <<>> ELSE identify_crossovers(f)
      done == IF Len(cr) > 0 THEN AnalyzeAll(f, cr, 1, [analyses |-> <<>>, origin |-> <<>>])
              ELSE [analyses |-> <<>>, origin |-> <<>>]
  IN [df |-> f, crossovers |-> cr, analyses |-> done.analyses, origin |-> done.origin,
      summary |-> IF Len(done.analyses) > 0
                  THEN Some(Summarize(timeframe_name, f, done.analyses))
                  ELSE None]

\* what the processing of one resolution produced
Produced(timeframe_name, bars, f, cr, s) ==
  [name |-> timeframe_name, bars |-> bars, detected |-> f.kind = "frame",
   events |-> Len(cr), summary |-> s]

FullInit ==
  /\ sma_period \in 1..MaxWindow
  /\ years \in 1..MaxYears
  /\ now = ClockStart
  /\ rng \in {0, 1}
  /\ rpc = "start"
  /\ timeframes = BaseTimeframes
  /\ ti = 0
  /\ four_hour_data = NoFrame
  /\ results = <<>>
  /\ report = None
  /\ seen = {}
  /\ fetched = NoFetch
  /\ calls = <<>>
  /\ data = NoFrame
  /\ pc = "idle"
  /\ df = NoFrame
  /\ crossovers = <<>>
  /\ k = 0
  /\ analyses = <<>>
  /\ origin = <<>>
  /\ outcome = "running"
  /\ summary = None
  /\ name = ""
  /\ probe = NoProbe

\* time passes between two statements of the orchestrator or two calls
Tick ==
  /\ rpc \in {"idle", "start", "loop"}
  /\ now < ClockStart + MaxTicks
  /\ now' = now + 1
  /\ UNCHANGED <<sma_period, data, pc, df, crossovers, k, analyses, origin, outcome,
                 summary, name, probe, years, rng, rpc, timeframes, ti, four_hour_data,
                 results, report, seen, fetched, calls>>

\* four_hour_data = self.fetch_data('1h'), the resampling and the insertion
\* of the 4-hour entry
FetchFourHour ==
  /\ rpc = "start"
  /\ \E src \in SourceOutcomes :
       LET ret == fetch_data(src, "1h", years, now, rng)
           resampled == IF ret.data.n > 0 THEN Resample(ret.data) ELSE ret.data
       IN /\ fetched' = [interval |-> "1h", src |-> src, ret |-> ret]
          /\ rng' = ret.rng
          /\ four_hour_data' = resampled
          /\ timeframes' = IF ret.data.n > 0 /\ resampled.n >= sma_period
                           THEN InsertFourHour(timeframes) ELSE timeframes
  /\ rpc' = "loop"
  /\ UNCHANGED <<sma_period, data, pc, df, crossovers, k, analyses, origin, outcome,
                 summary, name, probe, years, now, ti, results, report, seen, calls>>

\* one pass of the loop body for the entry '4h_resampled'
LoopFourHour ==
  /\ rpc = "loop" /\ ti < Len(timeframes)
  /\ timeframes[ti + 1].interval = "4h_resampled"
  /\ LET b == FourHourBranch(four_hour_data, sma_period, timeframes[ti + 1].name)
     IN /\ name' = timeframes[ti + 1].name
        /\ data' = four_hour_data
        /\ df' = b.df
        /\ crossovers' = b.crossovers
        /\ k' = Len(b.crossovers)
        /\ analyses' = b.analyses
        /\ origin' = b.origin
        /\ summary' = b.summary
        /\ outcome' = IF b.summary = None THEN "None" ELSE "summary"
        /\ results' = IF b.summary = None THEN results ELSE Append(results, b.summary[1])
        /\ seen' = seen \cup {Produced(timeframes[ti + 1].name, four_hour_data.n, b.df,
                                        b.crossovers, b.summary)}
  /\ pc' = "done"
  /\ ti' = ti + 1
  /\ UNCHANGED <<sma_period, probe, years, now, rng, rpc, timeframes, four_hour_data,
                 report, fetched, calls>>

\* summary = self.analyze_timeframe(interval, name), up to data = self.fetch_data(interval)
CallTimeframe ==
  /\ rpc = "loop" /\ ti < Len(timeframes)
  /\ timeframes[ti + 1].interval # "4h_resampled"
  /\ \E src \in SourceOutcomes :
       LET ret == fetch_data(src, timeframes[ti + 1].interval, years, now, rng)
       IN /\ fetched' = [interval |-> timeframes[ti + 1].interval, src |-> src, ret |-> ret]
          /\ rng' = ret.rng
          /\ data' = ret.data
  /\ name' = timeframes[ti + 1].name
  /\ pc' = "fetched"
  /\ df' = NoFrame
  /\ crossovers' = <<>>
  /\ k' = 0
  /\ analyses' = <<>>
  /\ origin' = <<>>
  /\ outcome' = "running"
  /\ summary' = None
  /\ rpc' = "pipeline"
  /\ UNCHANGED <<sma_period, probe, years, now, timeframes, ti, four_hour_data, results,
                 report, seen, calls>>

\* analyze_timeframe has returned: if summary is not None: results.append(summary)
ReturnTimeframe ==
  /\ rpc = "pipeline" /\ pc = "done"
  /\ results' = IF summary = None THEN results ELSE Append(results, summary[1])
  /\ seen' = seen \cup {Produced(name, data.n, df, crossovers, summary)}
  /\ ti' = ti + 1
  /\ rpc' = "loop"
  /\ UNCHANGED <<sma_period, data, pc, df, crossovers, k, analyses, origin, outcome,
                 summary, name, probe, years, now, rng, timeframes, four_hour_data,
                 report, fetched, calls>>

\* the loop is over: None without rows, the report otherwise
Finish ==
  /\ rpc = "loop" /\ ti = Len(timeframes)
  /\ report' = ReportOf(results)
  /\ rpc' = "done"
  /\ UNCHANGED <<sma_period, data, pc, df, crossovers, k, analyses, origin, outcome,
                 summary, name, probe, years, now, rng, timeframes, ti, four_hour_data,
                 results, seen, fetched, calls>>

FullNext ==
  \/ Tick
  \/ FetchFourHour
  \/ LoopFourHour
  \/ CallTimeframe
  \/ CalculateSma
  \/ IdentifyCrossovers
  \/ AnalyzeNext
  \/ Compile
  \/ ReturnTimeframe
  \/ Finish

FullSpec == FullInit /\ [][FullNext]_vars

\* ---------------------------------------------------------------- direct calls of the generator
\* the intervals fetch_data is called with
Intervals == {"1h", "1d", "1wk", "1mo"}

SynthInit ==
  /\ sma_period \in 1..MaxWindow
  /\ years \in 1..MaxYears
  /\ now = ClockStart
  /\ rng \in RngStates
  /\ rpc = "idle"
  /\ timeframes = <<>>
  /\ ti = 0
  /\ four_hour_data = NoFrame
  /\ results = <<>>
  /\ report = None
  /\ seen = {}
  /\ fetched = NoFetch
  /\ calls = <<>>
  /\ data = NoFrame
  /\ pc = "idle"
  /\ df = NoFrame
  /\ crossovers = <<>>
  /\ k = 0
  /\ analyses = <<>>
  /\ origin = <<>>
  /\ outcome = "running"
  /\ summary = None
  /\ name = ""
  /\ probe = NoProbe

\* analyzer._generate_synthetic_data(interval)
CallSynthetic ==
  /\ Len(calls) < MaxCalls
  /\ \E interval \in Intervals :
       /\ calls' = Append(calls, [interval |-> interval, years |-> years, at |-> now,
                                  before |-> rng,
                                  after |-> SyntheticRng(rng, interval, years),
                                  result |-> SyntheticFrame(interval, years, now)])
       /\ rng' = SyntheticRng(rng, interval, years)
  /\ UNCHANGED <<sma_period, data, pc, df, crossovers, k, analyses, origin, outcome,
                 summary, name, probe, years, now, rpc, timeframes, ti, four_hour_data,
                 results, report, seen, fetched>>

SynthNext ==
  \/ Tick
  \/ CallSynthetic

SynthSpec == SynthInit /\ [][SynthNext]_vars

\* ================================================================ properties
\* the run of analyze_timeframe has passed identify_crossovers
Detected == pc \in {"analysing", "done"} /\ df.kind = "frame"

\* positions of df whose SMA is defined
Valid(f) == {i \in 0..(f.n - 1) : ~f.SMA[i].nan}

\* direct sum of closes over lo..hi
RECURSIVE SumRange(_, _, _)
SumRange(closes, lo, hi) ==
  IF lo > hi THEN 0 ELSE closes[lo] + SumRange(closes, lo + 1, hi)

Max0(a) == IF a > 0 THEN a ELSE 0

\* close[i] < MA[i] and close[i] >= MA[i] with MA[i] defined, on frame f
Below(f, i) ==
  i \in Valid(f) /\ f.Close[i] * f.SMA[i].den < f.SMA[i].num
AtOrAbove(f, i) ==
  i \in Valid(f) /\ f.Close[i] * f.SMA[i].den >= f.SMA[i].num

\* ---------------------------------------------------------------- C1
\* C1: every index i reported by identify_crossovers, read as a position of
\* the frame that was passed to the detector, has MA defined at i-1 and at
\* i, close[i-1] < MA[i-1] and close[i] >= MA[i].
ReportedIndexIsCrossingInPassedFrame(f, r) ==
  \A j \in 1..Len(r) :
    /\ r[j] - 1 \in 0..(f.n - 1) /\ r[j] \in 0..(f.n - 1)
    /\ Below(f, r[j] - 1)
    /\ AtOrAbove(f, r[j])

C1_IndexIsPositionOfPassedFrame ==
  /\ Detected => ReportedIndexIsCrossingInPassedFrame(df, crossovers)
  /\ (probe.op = "identify_crossovers" /\ probe.frame.kind = "frame")
       => ReportedIndexIsCrossingInPassedFrame(probe.frame, probe.result)

\* ---------------------------------------------------------------- C2
\* the bar of df at which the crossover with reported index idx occurred:
\* idx counts the rows that survive dropna
TransitionBar(f, idx) == DropNa(f, 0)[idx + 1]

\* C2: every record that the loop of analyze_timeframe builds from a detected
\* crossover has entry_price = close of the bar where the below-to-at-or-above
\* transition occurred, entry_date = that bar's timestamp and entry_sma = the
\* defined moving average of that bar.
C2_EntryIsTransitionBar ==
  \A j \in 1..Len(analyses) :
    LET b == TransitionBar(df, origin[j])
    IN /\ analyses[j].entry_price = df.Close[b]
       /\ analyses[j].entry_date = df.index[b]
       /\ ~analyses[j].entry_sma.nan
       /\ analyses[j].entry_sma = df.SMA[b]

\* ---------------------------------------------------------------- C3
\* C3: calculate_sma returns no frame when n < w; otherwise a frame of length
\* n whose SMA is missing exactly at the positions i < w-1 and is the mean of
\* the closes over [i-w+1, i] elsewhere, so max(0, n-w+1) values are defined.
C3_SmaShape ==
  (pc # "fetched" /\ data.n > 0) =>
    LET n == data.n
        w == sma_period
    IN IF n < w THEN df.kind = "None"
       ELSE /\ df.kind = "frame"
            /\ df.n = n
            /\ df.Close = data.Close
            /\ \A i \in 0..(n - 1) :
                 /\ df.SMA[i].nan <=> (i < w - 1)
                 /\ (i >= w - 1) =>
                      df.SMA[i].num * w = SumRange(data.Close, i - w + 1, i) * df.SMA[i].den
            /\ Cardinality(Valid(df)) = Max0(n - w + 1)
            /\ \A i \in Valid(df) : i >= n - Max0(n - w + 1)

\* a frame with both missing and defined SMA values, the defined ones each
\* averaging a window that has already dropped an observation
C3_Witness ==
  /\ pc # "fetched" /\ df.kind = "frame"
  /\ sma_period >= 2 /\ data.n >= sma_period + 2
  /\ \E i \in Valid(df) : df.SMA[i] # df.SMA[data.n - 1]

\* ---------------------------------------------------------------- C4
\* rank of a valid position among the valid positions
Rank(f, i) == Cardinality({j \in Valid(f) : j < i})

\* p and i are neighbouring valid positions
Adjacent(f, p, i) ==
  p \in Valid(f) /\ i \in Valid(f) /\ p < i /\ ~\E q \in Valid(f) : p < q /\ q < i

\* the ranks of the valid positions reached by a strict-below to
\* at-or-above step from the neighbouring valid position
UpwardCrossings(f) ==
  {Rank(f, i) : i \in {x \in Valid(f) :
                         /\ AtOrAbove(f, x)
                         /\ \E p \in 0..(x - 1) : Below(f, p) /\ Adjacent(f, p, x)}}

IdentifyExact(f, r) ==
  IF f.kind = "None" THEN r = <<>>
  ELSE IF "SMA" \notin f.cols \/ Cardinality(Valid(f)) < 2 THEN r = <<>>
  ELSE /\ \A a, b \in 1..Len(r) : a < b => r[a] < r[b]
       /\ {r[a] : a \in 1..Len(r)} = UpwardCrossings(f)

\* C4: identify_crossovers returns exactly the adjacent valid pairs that step
\* from strictly below to at-or-above, as a strictly ascending list without
\* repetition (indices counting the valid rows); without an SMA column or with
\* fewer than two valid rows it returns the empty list.
C4_DetectorExact ==
  /\ pc \in {"analysing", "done"} => IdentifyExact(df, crossovers)
  /\ probe.op = "identify_crossovers" => IdentifyExact(probe.frame, probe.result)

\* two events in one list, with a downward crossing between them
C4_Witness ==
  /\ probe.op = "identify_crossovers"
  /\ Len(probe.result) >= 2
  /\ probe.result = crossovers

\* ---------------------------------------------------------------- outcome records
\* every record built so far, with the frame position and the forward-window
\* length it was built for
Calls ==
  {[e |-> origin[j], look |-> DefaultLook, rec |-> analyses[j]] : j \in 1..Len(analyses)}
  \cup (IF probe.op = "analyze_crossover"
        THEN IF probe.result.kind = "rec"
             THEN {[e |-> probe.idx, look |-> probe.look, rec |-> probe.result]}
             ELSE {}
        ELSE {})

\* number of bars of the slice [e, min(e + look, n))
SliceLen(c) == (IF c.e + c.look < df.n THEN c.e + c.look ELSE df.n) - c.e

\* closes of the slice by offset from e
SliceClose(c, t) == df.Close[c.e + t]

MaxOf(S) == CHOOSE x \in S : \A y \in S : y <= x
MinOf(S) == CHOOSE x \in S : \A y \in S : x <= y

SliceCloses(c) == {SliceClose(c, t) : t \in 0..(SliceLen(c) - 1)}

\* ---------------------------------------------------------------- C5
\* C5: every record has max_gain_points >= 0 >= max_drawdown_points, and with
\* a positive entry price max_gain >= 0 >= max_drawdown in percent.
C5_GainAndDrawdownSigns ==
  \A c \in Calls :
    /\ c.rec.max_gain_points >= 0
    /\ c.rec.max_drawdown_points <= 0
    /\ c.rec.entry_price > 0 =>
         /\ c.rec.max_gain.den > 0 /\ c.rec.max_gain.num >= 0
         /\ c.rec.max_drawdown.den > 0 /\ c.rec.max_drawdown.num <= 0

\* a window that ends below entry after having been above and below it
C5_Witness ==
  \E c \in Calls :
    /\ c.rec.max_gain_points > 0
    /\ c.rec.max_drawdown_points < 0
    /\ c.rec.points_captured < 0

\* ---------------------------------------------------------------- C6
IsScenarioSlice(c) ==
  SliceLen(c) = 5 /\ \A t \in 0..4 : SliceClose(c, t) = ScenarioCloses[t]

\* C6: over the slice [e, min(e+L, n)) the record has max_gain_points =
\* max close - entry, max_drawdown_points = min close - entry, final_price =
\* close of the last bar of the slice, points_captured = final_price -
\* entry_price and profitable = (points_captured > 0); the slice
\* [110, 108, 95, 105, 112] gives 2, -15, 2 and profitable.
C6_SliceStatistics ==
  \A c \in Calls :
    LET entry == df.Close[c.e]
    IN /\ SliceLen(c) >= 1
       /\ c.rec.max_gain_points = MaxOf(SliceCloses(c)) - entry
       /\ c.rec.max_drawdown_points = MinOf(SliceCloses(c)) - entry
       /\ c.rec.final_price = SliceClose(c, SliceLen(c) - 1)
       /\ c.rec.points_captured = c.rec.final_price - c.rec.entry_price
       /\ c.rec.profitable <=> (c.rec.points_captured > 0)
       /\ IsScenarioSlice(c) =>
            /\ c.rec.max_gain_points = 2
            /\ c.rec.max_drawdown_points = -15
            /\ c.rec.points_captured = 2
            /\ c.rec.profitable

\* the scenario slice analysed with a forward window of exactly 5 bars
C6_Witness ==
  \E c \in Calls : IsScenarioSlice(c) /\ c.look = 5

\* ---------------------------------------------------------------- C7
\* offsets of the slice, from offset lo on, whose close is at or below the
\* (defined) moving average of the same bar
TouchOffsets(c, lo) ==
  {t \in lo..(SliceLen(c) - 1) :
     /\ ~df.SMA[c.e + t].nan
     /\ SliceClose(c, t) * df.SMA[c.e + t].den <= df.SMA[c.e + t].num}

TouchIsFirstOf(c, T) ==
  IF T = {} THEN ~c.rec.touched_sma_again /\ c.rec.days_to_touch_sma = None
  ELSE c.rec.touched_sma_again /\ c.rec.days_to_touch_sma = Some(MinOf(T))

\* the record of c was built at a bar where a crossing occurred
AtCrossingBar(c) == c.e >= 1 /\ Below(df, c.e - 1) /\ AtOrAbove(df, c.e)

\* C7 as stated, on the records whose entry bar is a crossing bar:
\* touched_sma_again iff some index of the forward window [e, min(e+L, n))
\* has close <= its MA, days_to_touch_sma being the offset of the first such
\* index, None when there is none.
C7_TouchAnywhereInWindow ==
  \A c \in Calls : AtCrossingBar(c) => TouchIsFirstOf(c, TouchOffsets(c, 0))

\* C7 amended: the same over the indices of the forward window after the
\* entry bar (offset >= 1); the entry bar itself is never examined.
C7_TouchAfterEntry ==
  \A c \in Calls : TouchIsFirstOf(c, TouchOffsets(c, 1))

\* the entry bar is a crossing bar that closes exactly on its average, the
\* next bar stays above and a later bar touches
C7_Witness ==
  \E c \in Calls :
    /\ AtCrossingBar(c)
    /\ 0 \in TouchOffsets(c, 0)
    /\ 1 \notin TouchOffsets(c, 0)
    /\ TouchOffsets(c, 1) # {}
    /\ c.rec.touched_sma_again

\* ---------------------------------------------------------------- C8
\* offsets at which close >= entry after an earlier offset closed below entry
RecoveryOffsets(c) ==
  {t \in 0..(SliceLen(c) - 1) :
     /\ SliceClose(c, t) >= df.Close[c.e]
     /\ \E u \in 0..(t - 1) : SliceClose(c, u) < df.Close[c.e]}

\* C8: days_to_recovery is the first offset at which close >= entry after an
\* earlier offset closed below entry; it is None iff the window never closed
\* below entry or never closed at or above entry again afterwards; a later
\* recovery does not replace it.
C8_FirstRecovery ==
  \A c \in Calls :
    LET dips == {u \in 0..(SliceLen(c) - 1) : SliceClose(c, u) < df.Close[c.e]}
    IN /\ RecoveryOffsets(c) # {} =>
            c.rec.days_to_recovery = Some(MinOf(RecoveryOffsets(c)))
       /\ c.rec.days_to_recovery = None <=>
            \/ dips = {}
            \/ \A u \in dips : \A t \in (u + 1)..(SliceLen(c) - 1) :
                 SliceClose(c, t) < df.Close[c.e]

\* two recoveries in one window, separated by a second dip
C8_Witness ==
  \E c \in Calls :
    \E t1, t2 \in RecoveryOffsets(c) :
      /\ t1 < t2
      /\ \E u \in (t1 + 1)..(t2 - 1) : SliceClose(c, u) < df.Close[c.e]
      /\ c.rec.days_to_recovery = Some(t1)

\* ---------------------------------------------------------------- C9
\* the minimum close of the window is at least 98% of entry
MinWithin2Pct(c) == MinOf(SliceCloses(c)) * 100 >= df.Close[c.e] * 98

\* C9: bounced = went_up_continuously = TRUE with bounce_points =
\* max_gain_points iff the minimum close is at least 98% of entry; otherwise
\* bounced is FALSE, bounce_points is 0 and went_down_then_up holds iff
\* days_to_recovery is defined; bounced and went_down_then_up never both hold.
C9_ClassificationExclusive ==
  \A c \in Calls :
    /\ (c.rec.bounced /\ c.rec.went_up_continuously
        /\ c.rec.bounce_points = c.rec.max_gain_points) <=> MinWithin2Pct(c)
    /\ ~MinWithin2Pct(c) =>
         /\ ~c.rec.bounced
         /\ ~c.rec.went_up_continuously
         /\ c.rec.bounce_points = 0
         /\ c.rec.went_down_then_up <=> (c.rec.days_to_recovery # None)
    /\ ~(c.rec.bounced /\ c.rec.went_down_then_up)

\* a record that is neither bounced nor went_down_then_up, in a window whose
\* minimum is exactly one price step beyond the 2% line
C9_Witness ==
  \E c \in Calls :
    /\ ~c.rec.bounced /\ ~c.rec.went_down_then_up
    /\ (MinOf(SliceCloses(c)) + 1) * 100 >= df.Close[c.e] * 98

C11_NoneOnlyAtEnd ==
  probe.op = "analyze_crossover" =>
    /\ probe.result.kind = "None" <=> probe.idx >= df.n - 1
    /\ probe.idx < df.n - 1 => probe.result.kind = "rec"

\* C11 amended: the same for every forward-window length of at least 1.
C11_NoneOnlyAtEndPositiveWindow ==
  /\ probe.op = "analyze_crossover" =>
       /\ probe.result.kind = "None" <=> probe.idx >= df.n - 1
       /\ (probe.idx < df.n - 1 /\ probe.look >= 1) => probe.result.kind = "rec"
  /\ \A j \in 1..Len(origin) : origin[j] < df.n - 1

\* a record built although fewer bars remain than the window asks for, next
\* to the last index that still yields one
C11_Witness ==
  /\ probe.op = "analyze_crossover"
  /\ probe.result.kind = "rec"
  /\ probe.idx = df.n - 2
  /\ probe.look >= 3
  /\ probe.look < DefaultLook

\* ---------------------------------------------------------------- C12
\* sum of f over the positions in S
RECURSIVE SumOver(_, _)
SumOver(S, f) ==
  IF S = {} THEN 0
  ELSE LET x == CHOOSE y \in S : TRUE IN f[x] + SumOver(S \ {x}, f)

Winners == {j \in 1..Len(analyses) : analyses[j].points_captured > 0}

\* C12: a summary with total_crossovers > 0 has winning_rate = 100 *
\* winning_trades / total_crossovers, within [0, 100], and winning_trades +
\* losing_trades = total_crossovers; a summary with total_crossovers = 0 has
\* no winning_rate field.
C12_WinningRate ==
  summary # None =>
    LET d == summary[1]
    IN IF d.total_crossovers > 0
       THEN /\ "winning_rate" \in DOMAIN d
            /\ d.winning_rate.den > 0
            /\ d.winning_rate.num * d.total_crossovers
                 = 100 * d.winning_trades * d.winning_rate.den
            /\ d.winning_rate.num >= 0
            /\ d.winning_rate.num <= 100 * d.winning_rate.den
            /\ d.winning_trades + d.losing_trades = d.total_crossovers
            /\ d.winning_trades = Cardinality(Winners)
            /\ d.total_crossovers = Len(analyses)
       ELSE /\ d.total_crossovers = 0
            /\ "winning_rate" \notin DOMAIN d
            /\ "winning_trades" \notin DOMAIN d

\* a summary over winning and losing trades
C12_Witness ==
  /\ summary # None
  /\ summary[1].total_crossovers >= 2
  /\ summary[1].winning_trades >= 1
  /\ summary[1].losing_trades >= 1

\* ---------------------------------------------------------------- C14
Bouncers == {j \in 1..Len(analyses) : analyses[j].bounced}
Recoverers == {j \in 1..Len(analyses) : analyses[j].days_to_recovery # None}

\* C14: in a non-empty summary avg_bounce_points is the mean of bounce_points
\* over the bounced records and 0 when none bounced; avg_days_to_recovery is
\* the mean of days_to_recovery over the records where it is defined and None
\* when there is none.
C14_ConditionalMeans ==
  (summary # None /\ Len(analyses) > 0) =>
    LET d == summary[1]
    IN /\ IF Bouncers = {} THEN d.avg_bounce_points.num = 0
          ELSE d.avg_bounce_points.num * Cardinality(Bouncers)
                 = SumOver(Bouncers, [j \in Bouncers |-> analyses[j].bounce_points])
                     * d.avg_bounce_points.den
       /\ IF Recoverers = {} THEN d.avg_days_to_recovery = None
          ELSE /\ d.avg_days_to_recovery # None
               /\ d.avg_days_to_recovery[1].num * Cardinality(Recoverers)
                    = SumOver(Recoverers,
                              [j \in Recoverers |-> analyses[j].days_to_recovery[1]])
                        * d.avg_days_to_recovery[1].den

\* a summary over one record that recovered and one that did not
C14_Witness ==
  /\ summary # None
  /\ Recoverers # {}
  /\ Recoverers # 1..Len(analyses)

\* ---------------------------------------------------------------- C13
ShortSummaryFields ==
  {"timeframe", "total_crossovers", "data_points", "period_start", "period_end"}

\* the resolution recorded in s contributed a row with a zero count, the span
\* and nothing else
ZeroEventRow(s) ==
  /\ s.summary # None
  /\ DOMAIN s.summary[1] = ShortSummaryFields
  /\ s.summary[1].timeframe = s.name
  /\ s.summary[1].total_crossovers = 0
  /\ s.summary[1].data_points = s.bars
  /\ \E j \in 1..Len(results) : results[j] = s.summary[1]

\* C13: every resolution the orchestrator has processed, the resampled 4-hour
\* one included, whose Series has at least `window` bars and whose event list
\* is empty has contributed a report row with total_crossovers = 0, the
\* covered span and no derived statistics.
C13_EmptyEventListYieldsRow ==
  \A s \in seen :
    (s.bars >= sma_period /\ s.detected /\ s.events = 0) => ZeroEventRow(s)

\* ---------------------------------------------------------------- C15
\* the names of the resolutions in the list timeframes
Scheduled == {timeframes[j].name : j \in 1..Len(timeframes)}

\* the resolutions whose processing produced a summary
Summarised == {s \in seen : s.summary # None}

\* C15: when run_full_analysis returns, every resolution of the list has been
\* processed whatever the source did for the others, the rows are exactly
\* the summaries that were produced (a resolution without a summary has no
\* row), and the result is None iff no resolution produced a summary, never
\* an empty report.
C15_ReportHoldsExactlyProducedSummaries ==
  rpc = "done" =>
    /\ {s.name : s \in seen} = Scheduled
    /\ {"Daily", "Weekly", "Monthly"} \subseteq Scheduled
    /\ Cardinality(seen) = Len(timeframes)
    /\ {results[j] : j \in 1..Len(results)} = {s.summary[1] : s \in Summarised}
    /\ Len(results) = Cardinality(Summarised)
    /\ \A j \in 1..Len(results) :
         \E s \in Summarised : s.name = results[j].timeframe /\ s.summary[1] = results[j]
    /\ (report = None) <=> (Summarised = {})
    /\ report # Some(<<>>)
    /\ report # None => report = Some(results)

\* a run in which the source failed for one resolution and gave too little
\* for another: one row is missing, the others are reported
C15_Witness ==
  /\ rpc = "done"
  /\ report # None
  /\ \E s \in seen : s.summary = None /\ s.name # "4-Hour"
  /\ \E s \in seen : s.summary # None /\ s.name # "4-Hour"
  /\ fetched.src.kind = "raise"

\* ---------------------------------------------------------------- C16
\* the source returned a Series too short for the moving-average window
TooShort(src) == src.kind = "data" /\ src.data.n > 0 /\ src.data.n < sma_period

\* C16: whenever the source raised, returned nothing, an empty Series or a
\* Series shorter than the window, fetch_data returned the synthetic Series
\* and printed that synthetic data is in use; otherwise it returned the
\* source's Series unchanged and printed nothing.
C16_FallbackWhenUnusable ==
  fetched.interval # "none" =>
    IF SourceFailed(fetched.src) \/ TooShort(fetched.src)
    THEN /\ fetched.ret.synthetic
         /\ "Using synthetic demo data" \in fetched.ret.msgs
    ELSE /\ ~fetched.ret.synthetic
         /\ fetched.ret.data = fetched.src.data
         /\ fetched.ret.msgs = {}

\* ---------------------------------------------------------------- C17
\* C17: any two calls of _generate_synthetic_data with the same interval and
\* the same history span returned identical Series, timestamps included,
\* whenever they were made.
C17_SyntheticDeterministic ==
  \A i, j \in 1..Len(calls) :
    (calls[i].interval = calls[j].interval /\ calls[i].years = calls[j].years)
      => calls[i].result = calls[j].result

\* ---------------------------------------------------------------- C18
ResolutionRank(timeframe_name) ==
  CASE timeframe_name = "4-Hour" -> 0
    [] timeframe_name = "Daily" -> 1
    [] timeframe_name = "Weekly" -> 2
    [] timeframe_name = "Monthly" -> 3
    [] OTHER -> 4

\* the rows are in resolution order, one row at most for each resolution
RowsInOrder ==
  \A a, b \in 1..Len(results) :
    a < b => ResolutionRank(results[a].timeframe) < ResolutionRank(results[b].timeframe)

\* a 4-Hour row needs a resampled series of at least `window` bars
FourHourRowOnlyWhenAvailable ==
  (\E j \in 1..Len(results) : results[j].timeframe = "4-Hour")
    => (four_hour_data.kind = "frame" /\ four_hour_data.n >= sma_period)

\* a step that changes the rows appends the summary of a resolution whose
\* moving average, detection, outcome analysis and aggregation are over
AppendsCompleted ==
  results' # results =>
    /\ pc' = "done"
    /\ df'.kind = "frame"
    /\ k' = Len(crossovers')
    /\ summary' # None
    /\ results' = Append(results, summary'[1])
    /\ summary'[1].timeframe = name'
    /\ summary'[1].data_points = df'.n
    /\ summary'[1].total_crossovers = Len(analyses')

\* C18: the report rows are in the order 4-Hour (only when the resampled
\* series has at least `window` bars), Daily, Weekly, Monthly, each
\* resolution contributing at most one row, and a row is appended only once
\* the whole pipeline of its resolution has completed.
C18_RowsInResolutionOrder ==
  /\ [](RowsInOrder /\ FourHourRowOnlyWhenAvailable)
  /\ [][AppendsCompleted]_vars

\* a report with the four rows
C18_Witness ==
  /\ rpc = "done"
  /\ Len(results) = 4
  /\ results[1].timeframe = "4-Hour"

\* ---------------------------------------------------------------- C19
\* C19: every call of _generate_synthetic_data left the global random
\* generator in the state it found it in.
C19_GlobalRngUntouched ==
  \A i \in 1..Len(calls) : calls[i].after = calls[i].before

\* ---------------------------------------------------------------- C20
\* the bars of f reached from a bar strictly below its average by a bar at or
\* above its average
CrossingBars(f) == {i \in 1..(f.n - 1) : Below(f, i - 1) /\ AtOrAbove(f, i)}

LastBarCrossing(f) == f.kind = "frame" /\ (f.n - 1) \in CrossingBars(f)

\* C20: in the processing of one resolution, for every window >= 1, every
\* index returned by identify_crossovers makes analyze_crossover return a
\* record: the loop has built one record per index consumed, total_crossovers
\* equals the number of detected crossings (which is the number of crossings
\* of the Series), a crossing on the last bar is counted, and a resolution
\* with crossovers is never dropped for want of analyses.  The 4-hour branch
\* of run_full_analysis, run on the same Series, does the same.
\* the same for the 4-hour branch run on a frame f of at least w bars
FourHourAnalysesAll(f, w) ==
  LET b == FourHourBranch(f, w, "4-Hour")
  IN /\ Len(b.analyses) = Len(b.crossovers)
     /\ Len(b.crossovers) > 0 =>
          /\ b.summary # None
          /\ b.summary[1].total_crossovers = Cardinality(CrossingBars(b.df))

C20_EveryCrossoverAnalysed ==
  /\ pc = "analysing" => Len(analyses) = k
  /\ (pc = "done" /\ df.kind = "frame") => Len(analyses) = Len(crossovers)
  /\ (pc = "done" /\ df.kind = "frame" /\ Len(crossovers) > 0) =>
       /\ summary # None
       /\ summary[1].total_crossovers = Len(crossovers)
       /\ summary[1].total_crossovers = Cardinality(CrossingBars(df))
  /\ (pc = "done" /\ LastBarCrossing(df)) => Len(analyses) >= 1
  /\ (pc = "done" /\ probe = NoProbe /\ data.kind = "frame" /\ data.n >= sma_period) =>
       FourHourAnalysesAll(data, sma_period)

\* a Series whose last bar is a crossing, and an earlier crossing as well
C20_Witness ==
  /\ pc = "done"
  /\ LastBarCrossing(df)
  /\ Len(analyses) = 2
  /\ summary # None

====
